---- MODULE Spec2Model ----
(***************************************************************************)
(* A model of src/main.py: Transaction, Block and Blockchain.              *)
(*                                                                         *)
(* Python values are modelled as follows.                                  *)
(*   - a str is a sequence of integers (character codes);                  *)
(*   - a value whose type varies (previous_hash is the int 0 in the        *)
(*     genesis block and a str elsewhere; return values) is a record       *)
(*     [t, s]: t names the Python type, s holds the payload;               *)
(*   - a dict is a function from key codes to such records; the key codes  *)
(*     are numbered in the alphabetical order of the key names, so that    *)
(*     json.dumps(..., sort_keys=True) is "ascending key code";            *)
(*   - an attribute that is absent from __dict__ is the record Absent.     *)
(* json.dumps produces a token sequence (a str), json.loads parses one.    *)
(* sha256(...).hexdigest() is idealised as a collision-free digest: a      *)
(* prefix of DigestDigits pseudo-random digits computed from the input,    *)
(* followed by the input itself.                                           *)
(***************************************************************************)
EXTENDS Integers, Sequences, FiniteSets, TLC

VARIABLES
    chain,                      \* Blockchain.chain: sequence of Block objects
    unconfirmed_transactions,   \* Blockchain.unconfirmed_transactions
    last,                       \* the last call: operation, arguments, result
    submitted,                  \* history: how often each Transaction was submitted
    via,                        \* history: via[i] names the call that appended chain[i]
    frames                      \* per thread: the call in progress, its locals, its place

vars == <<chain, unconfirmed_transactions, last, submitted, via, frames>>

(***************************************************************************)
(* Bounds of the model.                                                    *)
(***************************************************************************)
MaxChain == 3       \* blocks in the chain, genesis included
MaxSubmits == 3     \* add_new_transaction calls in one run
MaxNonce == 5       \* nonces 0..MaxNonce are tried by the search
Radix == 2          \* size of the digest's digit alphabet (16 for a hex digest)
DigestDigits == 4   \* digits of the digest that are computed from the input

DIFFICULTY == 3

(***************************************************************************)
(* Python values.                                                          *)
(***************************************************************************)
PyInt(n) == [t |-> "int", s |-> <<n>>]
PyStr(s) == [t |-> "str", s |-> s]
PyBool(b) == [t |-> "bool", s |-> <<IF b THEN 1 ELSE 0>>]
PyNone == [t |-> "none", s |-> <<>>]
Absent == [t |-> "absent", s |-> <<>>]

\* json keys, numbered in alphabetical order
K == [amount |-> 1, data |-> 2, hash |-> 3, index |-> 4, nonce |-> 5,
      previous_hash |-> 6, receiver |-> 7, sender |-> 8, timestamp |-> 9,
      transaction |-> 10, transactions |-> 11]

\* json syntax: what kind of value follows
Tag == [int |-> 1, str |-> 2, list |-> 3, dict |-> 4]

(***************************************************************************)
(* json.dumps and json.loads.                                              *)
(***************************************************************************)
dumps_value(v) ==
    IF v.t = "int" THEN <<Tag.int, v.s[1]>>
    ELSE <<Tag.str, Len(v.s)>> \o v.s

Min(S) == CHOOSE x \in S : \A y \in S : x <= y

RECURSIVE dumps_items(_, _)
dumps_items(d, keys) ==
    IF keys = {} THEN <<>>
    ELSE LET k == Min(keys)
         IN  <<k>> \o dumps_value(d[k]) \o dumps_items(d, keys \ {k})

\* json.dumps(d, sort_keys=True) of a dict of ints and strs
dumps_sorted(d) == <<Tag.dict, Cardinality(DOMAIN d)>> \o dumps_items(d, DOMAIN d)

RECURSIVE dumps_list(_, _)
dumps_list(l, i) ==
    IF i > Len(l) THEN <<>> ELSE dumps_sorted(l[i]) \o dumps_list(l, i + 1)

RECURSIVE parse_pairs(_, _, _, _)
parse_pairs(s, i, n, d) ==
    IF n = 0 THEN d
    ELSE LET k == s[i]
             tag == s[i + 1]
         IN  IF tag = Tag.int
             THEN parse_pairs(s, i + 3, n - 1, d @@ (k :> PyInt(s[i + 2])))
             ELSE LET len == s[i + 2]
                  IN  parse_pairs(s, i + 3 + len, n - 1,
                                  d @@ (k :> PyStr(SubSeq(s, i + 3, i + 2 + len))))

\* json.loads of the dump of a flat dict
json_loads(s) == parse_pairs(s, 3, s[2], <<>>)

(***************************************************************************)
(* Transaction.                                                            *)
(***************************************************************************)
Transaction(sender, receiver, data, amount, now) ==
    [sender |-> PyStr(sender), receiver |-> PyStr(receiver), data |-> PyStr(data),
     amount |-> PyInt(amount), timestamp |-> PyStr(now)]

\* Transaction.__str__: json.dumps(self.__dict__), keys in insertion order
Transaction_str(tx) ==
    <<Tag.dict, 5>>
    \o <<K.sender>> \o dumps_value(tx.sender)
    \o <<K.receiver>> \o dumps_value(tx.receiver)
    \o <<K.data>> \o dumps_value(tx.data)
    \o <<K.amount>> \o dumps_value(tx.amount)
    \o <<K.timestamp>> \o dumps_value(tx.timestamp)

(***************************************************************************)
(* sha256(...).hexdigest(), idealised.                                     *)
(***************************************************************************)
\* The digits are drawn from a position-weighted checksum of the triangular numbers
\* of the input's tokens, summed by halves: an input may have several nonces that give
\* leading zeros, or none.
RECURSIVE Mix(_, _, _)
Mix(s, lo, hi) ==
    IF lo > hi THEN 0
    ELSE IF lo = hi THEN (((s[lo] + 7) * (s[lo] + 8)) \div 2) * (2 * (lo % 5) + 3)
    ELSE LET mid == (lo + hi) \div 2
         IN  (Mix(s, lo, mid) + Mix(s, mid + 1, hi)) % 65536

RECURSIVE Pow(_, _)
Pow(b, e) == IF e = 0 THEN 1 ELSE b * Pow(b, e - 1)

\* the digest of the str v
digest(v) ==
    LET m == Mix(v, 1, Len(v))
    IN  [i \in 1..DigestDigits |-> (m \div Pow(Radix, i - 1)) % Radix] \o v

\* the str s is built once, then digested
sha256_hexdigest(s) == CHOOSE h \in {digest(v) : v \in {s}} : TRUE

\* h.startswith('0' * n)
startswith_zeros(h, n) == Len(h) >= n /\ \A i \in 1..n : h[i] = 0

(***************************************************************************)
(* Block.                                                                  *)
(***************************************************************************)
Block(index, transactions, previous_hash, now) ==
    [index |-> index, transactions |-> transactions, timestamp |-> now,
     previous_hash |-> previous_hash, nonce |-> 0, hash |-> Absent]

\* a dump that leaves the timestamp out
Block_dumps_without_timestamp(b) ==
    <<Tag.dict, IF b.hash = Absent THEN 4 ELSE 5>>
    \o (IF b.hash = Absent THEN <<>> ELSE <<K.hash>> \o dumps_value(b.hash))
    \o <<K.index, Tag.int, b.index>>
    \o <<K.nonce, Tag.int, b.nonce>>
    \o <<K.previous_hash>> \o dumps_value(b.previous_hash)
    \o <<K.transactions, Tag.list, Len(b.transactions)>> \o dumps_list(b.transactions, 1)

\* json.dumps(self.__dict__, sort_keys=True): hash is a key once it is assigned
Block_dumps(b) ==
    <<Tag.dict, IF b.hash = Absent THEN 5 ELSE 6>>
    \o (IF b.hash = Absent THEN <<>> ELSE <<K.hash>> \o dumps_value(b.hash))
    \o <<K.index, Tag.int, b.index>>
    \o <<K.nonce, Tag.int, b.nonce>>
    \o <<K.previous_hash>> \o dumps_value(b.previous_hash)
    \o <<K.timestamp>> \o dumps_value(PyStr(b.timestamp))
    \o <<K.transactions, Tag.list, Len(b.transactions)>> \o dumps_list(b.transactions, 1)

compute_hash(b) == sha256_hexdigest(Block_dumps(b))

(***************************************************************************)
(* Blockchain.                                                             *)
(***************************************************************************)
\* datetime.now(), as a str
Clock == {<<1>>, <<2>>}

\* The Transaction objects the callers hold (amounts 8 and 80 as in the driver).
T1 == Transaction(<<1>>, <<2>>, <<3>>, 8, <<1>>)
T2 == Transaction(<<4>>, <<2>>, <<3>>, 80, <<2>>)
Transactions == {T1, T2}

\* [{'transaction': 'Genesis Block'}]
GenesisTransactions == <<(K.transaction :> PyStr(<<5>>))>>

\* a genesis block whose previous_hash is the str '0'
create_genesis_block_str_zero(now) ==
    LET genesis_block == Block(0, GenesisTransactions, PyStr(<<0>>), now)
    IN  <<[genesis_block EXCEPT !.hash = PyStr(compute_hash(genesis_block))]>>

\* create_genesis_block: the chain it leaves behind
create_genesis_block(now) ==
    LET genesis_block == Block(0, GenesisTransactions, PyInt(0), now)
    IN  <<[genesis_block EXCEPT !.hash = PyStr(compute_hash(genesis_block))]>>

last_block(ch) == ch[Len(ch)]

\* a search that stops one zero short of the difficulty
RECURSIVE search_one_zero_short(_, _)
search_one_zero_short(block, n) ==
    LET b == [block EXCEPT !.nonce = n]
        computed_hash == compute_hash(b)
    IN  IF startswith_zeros(computed_hash, DIFFICULTY - 1)
        THEN [done |-> TRUE, block |-> b, hash |-> computed_hash]
        ELSE IF n >= MaxNonce
             THEN [done |-> FALSE, block |-> b, hash |-> computed_hash]
             ELSE search_one_zero_short(block, n + 1)

next_nonce_by_two(n) == n + 2

\* proof_of_work: block.nonce += 1
next_nonce(n) == n + 1

\* the while loop of proof_of_work, entered with block.nonce = n; done is FALSE
\* when no nonce up to MaxNonce ends the loop
RECURSIVE search(_, _)
search(block, n) ==
    LET b == [block EXCEPT !.nonce = n]
        computed_hash == compute_hash(b)
    IN  IF startswith_zeros(computed_hash, DIFFICULTY)
        THEN [done |-> TRUE, block |-> b, hash |-> computed_hash]
        ELSE IF n >= MaxNonce
             THEN [done |-> FALSE, block |-> b, hash |-> computed_hash]
             ELSE search(block, next_nonce(n))

\* a search that steps the nonce once more after the hash it returns
proof_of_work_nonce_ahead(block) ==
    LET r == search(block, 0)
    IN  [r EXCEPT !.block.nonce = @ + 1]

\* a search that starts at nonce 1
proof_of_work_from_one(block) == search(block, 1)

\* proof_of_work: block.nonce = 0, then the loop
proof_of_work(block) == search(block, 0)

\* a check that asks for one more zero than the search
is_valid_proof_one_more_zero(block, block_hash) ==
    /\ startswith_zeros(block_hash, DIFFICULTY + 1)
    /\ block_hash = compute_hash(block)

is_valid_proof(block, block_hash) ==
    /\ startswith_zeros(block_hash, DIFFICULTY)
    /\ block_hash = compute_hash(block)

\* add_block without the comparison of previous_hash with the tip's hash
add_block_no_linkage(ch, block, proof, obj) ==
    IF ~is_valid_proof(block, proof)
    THEN [ret |-> FALSE, chain |-> ch, block |-> block]
    ELSE LET b == [block EXCEPT !.hash = PyStr(proof)]
             ch1 == IF obj = 0 THEN ch ELSE [ch EXCEPT ![obj] = b]
         IN  [ret |-> TRUE, chain |-> Append(ch1, b), block |-> b]

\* add_block that takes any proof with enough zeros, whatever the block hashes to
add_block_zeros_only(ch, block, proof, obj) ==
    LET previous_hash == ch[Len(ch)].hash
    IN  IF previous_hash # block.previous_hash
        THEN [ret |-> FALSE, chain |-> ch, block |-> block]
        ELSE IF ~startswith_zeros(proof, DIFFICULTY)
             THEN [ret |-> FALSE, chain |-> ch, block |-> block]
             ELSE LET b == [block EXCEPT !.hash = PyStr(proof)]
                      ch1 == IF obj = 0 THEN ch ELSE [ch EXCEPT ![obj] = b]
                  IN  [ret |-> TRUE, chain |-> Append(ch1, b), block |-> b]

\* add_block that overwrites the tip when the chain already has mined blocks
add_block_replaces_tip(ch, block, proof, obj) ==
    LET previous_hash == ch[Len(ch)].hash
    IN  IF previous_hash # block.previous_hash
        THEN [ret |-> FALSE, chain |-> ch, block |-> block]
        ELSE IF ~is_valid_proof(block, proof)
             THEN [ret |-> FALSE, chain |-> ch, block |-> block]
             ELSE LET b == [block EXCEPT !.hash = PyStr(proof)]
                  IN  [ret |-> TRUE,
                       chain |-> IF Len(ch) > 1 THEN [ch EXCEPT ![Len(ch)] = b]
                                 ELSE Append(ch, b),
                       block |-> b]

\* add_block(block, proof) on chain ch. obj is the position in ch of the Block
\* object that is passed, 0 when the object is not in the chain: assigning
\* block.hash changes the object wherever it is referenced.
add_block(ch, block, proof, obj) ==
    LET previous_hash == last_block(ch).hash
    IN  IF previous_hash # block.previous_hash
        THEN [ret |-> FALSE, chain |-> ch, block |-> block]
        ELSE IF ~is_valid_proof(block, proof)
             THEN [ret |-> FALSE, chain |-> ch, block |-> block]
             ELSE LET b == [block EXCEPT !.hash = PyStr(proof)]
                      ch1 == IF obj = 0 THEN ch ELSE [ch EXCEPT ![obj] = b]
                  IN  [ret |-> TRUE, chain |-> Append(ch1, b), block |-> b]

add_new_transaction_prepends(pool, transaction) == <<transaction>> \o pool

\* add_new_transaction: the pool it leaves behind
add_new_transaction(pool, transaction) == Append(pool, transaction)

nothing_to_mine_never(pool) == FALSE

\* mine: "if not self.unconfirmed_transactions"
nothing_to_mine(pool) == pool = <<>>

next_index_same(lb) == lb.index

\* mine: index=last_block.index + 1
next_index(lb) == lb.index + 1

cleared_keeps(pool) == pool

\* mine: self.unconfirmed_transactions = []
cleared(pool) == <<>>

pool_as_dicts_reversed(pool) ==
    [i \in 1..Len(pool) |-> json_loads(Transaction_str(pool[Len(pool) + 1 - i]))]

\* mine: [json.loads(str(i)) for i in self.unconfirmed_transactions]
pool_as_dicts(pool) == [i \in 1..Len(pool) |-> json_loads(Transaction_str(pool[i]))]

\* mine() on chain ch and pending pool, the clock reading now. returns is FALSE
\* when the nonce search does not end (the call never returns).
mine(ch, pool, now) ==
    IF nothing_to_mine(pool)
    THEN [returns |-> TRUE, ret |-> PyBool(FALSE), chain |-> ch, pool |-> pool,
          blk |-> <<>>, proof |-> <<>>]
    ELSE LET lb == last_block(ch)
             new_block == Block(next_index(lb), pool_as_dicts(pool), lb.hash, now)
             pw == proof_of_work(new_block)
             ab == add_block(ch, pw.block, pw.hash, 0)
         IN  IF ~pw.done
             THEN [returns |-> FALSE, ret |-> PyNone, chain |-> ch, pool |-> pool,
                   blk |-> <<pw.block>>, proof |-> <<>>]
             ELSE [returns |-> TRUE,
                   ret |-> IF ab.ret THEN PyInt(ab.block.index) ELSE PyBool(FALSE),
                   chain |-> ab.chain, pool |-> cleared(pool),
                   blk |-> <<ab.block>>, proof |-> pw.hash]

(***************************************************************************)
(* The state machine: one action per call of the public interface.         *)
(***************************************************************************)
Call(op, ret, arg, blk, proof) ==
    [op |-> op, ret |-> ret, arg |-> arg, blk |-> blk, proof |-> proof]

Submits == submitted[T1] + submitted[T2]

\* between two calls the caller holds no result
Idle == Call("", PyNone, <<>>, <<>>, <<>>)

\* the threads that call into the Blockchain object
Threads == {1, 2}

\* a thread that is in no call
NoFrame ==
    [pc |-> "", last_block |-> <<>>, new_block |-> <<>>, computed_hash |-> <<>>,
     previous_hash |-> <<>>, ret |-> PyNone]

\* Blockchain()
Init ==
    /\ \E now \in Clock : chain = create_genesis_block(now)
    /\ unconfirmed_transactions = <<>>
    /\ last = Call("Blockchain", PyNone, <<>>, <<>>, <<>>)
    /\ submitted = [t \in Transactions |-> 0]
    /\ via = <<"genesis">>
    /\ frames = [t \in Threads |-> NoFrame]

\* blockchain.add_new_transaction(tx)
AddNewTransaction ==
    \E tx \in Transactions :
        /\ last = Idle
        /\ Submits < MaxSubmits
        /\ unconfirmed_transactions' = add_new_transaction(unconfirmed_transactions, tx)
        /\ submitted' = [submitted EXCEPT ![tx] = @ + 1]
        /\ last' = Call("add_new_transaction", PyNone, <<>>, <<>>, <<>>)
        /\ UNCHANGED <<chain, via, frames>>

\* blockchain.mine()
Mine ==
    \E now \in Clock :
        LET r == mine(chain, unconfirmed_transactions, now)
        IN  /\ last = Idle
            /\ unconfirmed_transactions = <<>> \/ Len(chain) < MaxChain
            /\ r.returns
            /\ chain' = r.chain
            /\ unconfirmed_transactions' = r.pool
            /\ last' = Call("mine", r.ret, <<>>, r.blk, r.proof)
            /\ via' = IF Len(r.chain) > Len(chain) THEN Append(via, "mine") ELSE via
            /\ UNCHANGED <<submitted, frames>>

\* The Block objects a caller passes to add_block: a new Block(...) with any of
\* the indices, one pending-looking transaction, any known hash (or the int 0) as
\* previous_hash, left at nonce 0 or taken through proof_of_work, with or
\* without a hash attribute of its own.
IndexInputs == {-1, 0, 1}

PreviousHashInputs == {PyInt(0)} \cup {chain[k].hash : k \in 1..Len(chain)}

NewBlocks ==
    {[Block(i, <<json_loads(Transaction_str(T1))>>, p, <<1>>) EXCEPT !.hash = h] :
        i \in IndexInputs, p \in PreviousHashInputs,
        h \in {Absent, PyStr(<<0, 0, 0>>)}}

\* blockchain.add_block(block, proof), block a new object: nonce and proof as
\* proof_of_work gives them, or nonce 0 with its own hash, or nonce 0 with the
\* hash of the mined nonce
AddBlockNew ==
    /\ last = Idle
    /\ Len(chain) < MaxChain
    /\ \E b0 \in NewBlocks :
        LET pw == proof_of_work(b0)
        IN  \E c \in {<<pw.block, pw.hash>>, <<b0, compute_hash(b0)>>, <<b0, pw.hash>>} :
                LET r == add_block(chain, c[1], c[2], 0)
                IN  /\ chain' = r.chain
                    /\ last' = Call("add_block", PyBool(r.ret), <<c[1]>>, <<r.block>>, c[2])
                    /\ via' = IF r.ret THEN Append(via, "add_block") ELSE via
                    /\ UNCHANGED <<unconfirmed_transactions, submitted, frames>>

\* blockchain.add_block(blockchain.chain[k], proof): the object is in the chain
AddBlockOld ==
    /\ last = Idle
    /\ Len(chain) < MaxChain
    /\ \E k \in 1..Len(chain) :
        \E proof \in {compute_hash(chain[k]), chain[k].hash.s} :
            LET r == add_block(chain, chain[k], proof, k)
            IN  /\ chain' = r.chain
                /\ last' = Call("add_block", PyBool(r.ret), <<chain[k]>>, <<r.block>>, proof)
                /\ via' = IF r.ret THEN Append(via, "add_block") ELSE via
                /\ UNCHANGED <<unconfirmed_transactions, submitted, frames>>

\* the call has returned and the caller goes on (the driver prints the result
\* and drops it): the next call can be made
CallerContinues ==
    /\ last # Idle
    /\ last' = Idle
    /\ UNCHANGED <<chain, unconfirmed_transactions, submitted, via, frames>>

Next == AddNewTransaction \/ Mine \/ AddBlockNew \/ AddBlockOld \/ CallerContinues

Spec == Init /\ [][Next]_vars

(***************************************************************************)
(* The static methods called on their own: proof_of_work and               *)
(* is_valid_proof on blocks the caller builds, and is_valid_proof again    *)
(* after the caller has changed one field of a block that had a valid      *)
(* proof.                                                                  *)
(***************************************************************************)
D1 == json_loads(Transaction_str(T1))
D2 == json_loads(Transaction_str(T2))

\* the caller's blocks: any index, transaction list, previous_hash and timestamp,
\* the nonce at 0 or at MaxNonce, with or without a hash attribute
CandidateBlocks ==
    {[Block(i, txs, p, now) EXCEPT !.nonce = n, !.hash = h] :
        i \in {-1, 0, 1, 2}, txs \in {<<>>, <<D1>>, <<D1, D2>>},
        p \in {PyInt(0), chain[1].hash}, now \in Clock, n \in {0, MaxNonce},
        h \in {Absent, PyStr(<<0, 0, 0>>)}}

\* Blockchain.proof_of_work(block)
ProofOfWork ==
    /\ last = Idle
    /\ \E b \in CandidateBlocks :
        LET pw == proof_of_work(b)
        IN  /\ pw.done
            /\ last' = Call("proof_of_work", PyStr(pw.hash), <<b>>, <<pw.block>>, pw.hash)
            /\ UNCHANGED <<chain, unconfirmed_transactions, submitted, via, frames>>

\* Blockchain.is_valid_proof(block, block_hash): the block with the nonce and
\* the hash that proof_of_work gives, or as built, with its own hash or with the
\* hash of the mined nonce
IsValidProof ==
    /\ last = Idle
    /\ \E b0 \in CandidateBlocks :
        LET pw == proof_of_work(b0)
        IN  \E c \in {<<pw.block, pw.hash>>, <<b0, compute_hash(b0)>>, <<b0, pw.hash>>} :
                /\ last' = Call("is_valid_proof", PyBool(is_valid_proof(c[1], c[2])),
                                <<c[1]>>, <<c[1]>>, c[2])
                /\ UNCHANGED <<chain, unconfirmed_transactions, submitted, via, frames>>

\* the blocks that differ from b in one hashed field
ChangedValues(v) ==
    IF v.t = "int" THEN {PyInt(v.s[1] + 1), PyInt(0), PyStr(v.s)} \ {v}
    ELSE {PyStr(v.s \o <<1>>), PyStr(<<>>), PyInt(0)} \ {v}

Tampered(b) ==
    {[b EXCEPT !.index = i] : i \in {-1, 0, 1, 2} \ {b.index}}
    \cup {[b EXCEPT !.nonce = n] : n \in (0..MaxNonce + 1) \ {b.nonce}}
    \cup {[b EXCEPT !.timestamp = now] : now \in (Clock \cup {<<>>}) \ {b.timestamp}}
    \cup {[b EXCEPT !.previous_hash = p] : p \in ChangedValues(b.previous_hash)}
    \cup UNION {{[b EXCEPT !.transactions[jk[1]][jk[2]] = v] :
                    v \in ChangedValues(b.transactions[jk[1]][jk[2]])} :
                jk \in (1..Len(b.transactions)) \X {K.amount, K.sender, K.timestamp}}

\* the caller changes one field of the block whose proof was just found valid
\* and calls is_valid_proof again with the same hash
TamperAndRecheck ==
    /\ last.op = "is_valid_proof"
    /\ last.ret = PyBool(TRUE)
    /\ \E b2 \in Tampered(last.arg[1]) :
        /\ last' = Call("is_valid_proof after tampering",
                        PyBool(is_valid_proof(b2, last.proof)), last.arg, <<b2>>, last.proof)
        /\ UNCHANGED <<chain, unconfirmed_transactions, submitted, via, frames>>

NextProof == ProofOfWork \/ IsValidProof \/ TamperAndRecheck \/ CallerContinues

SpecProof == Init /\ [][NextProof]_vars

(***************************************************************************)
(* mine() and add_new_transaction(tx) statement by statement: each thread  *)
(* runs one call at a time and the statements of the threads' calls        *)
(* interleave. pc is the line of main.py the thread executes next.         *)
(***************************************************************************)
\* the frame of a call that has returned
Returned(ret) == [NoFrame EXCEPT !.pc = "returned", !.ret = ret]

\* the thread can make its next call
Ready(t) == frames[t].pc \in {"", "returned"}

\* line 127, the whole body of add_new_transaction
Line127(t) ==
    /\ Ready(t)
    /\ Submits < MaxSubmits
    /\ \E tx \in Transactions :
        /\ unconfirmed_transactions' = add_new_transaction(unconfirmed_transactions, tx)
        /\ submitted' = [submitted EXCEPT ![tx] = @ + 1]
    /\ frames' = [frames EXCEPT ![t] = Returned(PyNone)]
    /\ UNCHANGED <<chain, last, via>>

\* mine() is called; lines 136-137: if not self.unconfirmed_transactions: return False
Line136(t) ==
    /\ Ready(t)
    /\ unconfirmed_transactions = <<>> \/ Len(chain) < MaxChain
    /\ frames' = [frames EXCEPT ![t] =
                    IF nothing_to_mine(unconfirmed_transactions)
                    THEN Returned(PyBool(FALSE))
                    ELSE [NoFrame EXCEPT !.pc = "138"]]
    /\ UNCHANGED <<chain, unconfirmed_transactions, last, submitted, via>>

\* line 138: last_block = self.last_block
Line138(t) ==
    /\ frames[t].pc = "138"
    /\ frames' = [frames EXCEPT ![t].pc = "139", ![t].last_block = <<last_block(chain)>>]
    /\ UNCHANGED <<chain, unconfirmed_transactions, last, submitted, via>>

\* lines 139-141: new_block = Block(...)
Line139(t) ==
    /\ frames[t].pc = "139"
    /\ \E now \in Clock :
        frames' = [frames EXCEPT
                      ![t].pc = "86",
                      ![t].new_block =
                          <<Block(next_index(frames[t].last_block[1]),
                                  pool_as_dicts(unconfirmed_transactions),
                                  frames[t].last_block[1].hash, now)>>]
    /\ UNCHANGED <<chain, unconfirmed_transactions, last, submitted, via>>

\* line 143 calls proof_of_work; line 86: block.nonce = 0
Line86(t) ==
    /\ frames[t].pc = "86"
    /\ frames' = [frames EXCEPT ![t].pc = "87", ![t].new_block[1].nonce = 0]
    /\ UNCHANGED <<chain, unconfirmed_transactions, last, submitted, via>>

\* line 87: computed_hash = block.compute_hash()
Line87(t) ==
    /\ frames[t].pc = "87"
    /\ frames' = [frames EXCEPT ![t].pc = "88",
                                ![t].computed_hash = compute_hash(frames[t].new_block[1])]
    /\ UNCHANGED <<chain, unconfirmed_transactions, last, submitted, via>>

\* line 88: while not computed_hash.startswith('0' * DIFFICULTY); when the loop
\* ends, line 91 returns computed_hash and line 143 binds it to proof
Line88(t) ==
    /\ frames[t].pc = "88"
    /\ frames' = [frames EXCEPT ![t].pc =
                    IF startswith_zeros(frames[t].computed_hash, DIFFICULTY)
                    THEN "144" ELSE "89"]
    /\ UNCHANGED <<chain, unconfirmed_transactions, last, submitted, via>>

\* line 89: block.nonce += 1 (the model follows the loop up to nonce MaxNonce)
Line89(t) ==
    /\ frames[t].pc = "89"
    /\ frames[t].new_block[1].nonce < MaxNonce
    /\ frames' = [frames EXCEPT ![t].pc = "90", ![t].new_block[1].nonce = next_nonce(@)]
    /\ UNCHANGED <<chain, unconfirmed_transactions, last, submitted, via>>

\* line 90: computed_hash = block.compute_hash()
Line90(t) ==
    /\ frames[t].pc = "90"
    /\ frames' = [frames EXCEPT ![t].pc = "88",
                                ![t].computed_hash = compute_hash(frames[t].new_block[1])]
    /\ UNCHANGED <<chain, unconfirmed_transactions, last, submitted, via>>

\* line 144: self.unconfirmed_transactions = []
Line144(t) ==
    /\ frames[t].pc = "144"
    /\ unconfirmed_transactions' = cleared(unconfirmed_transactions)
    /\ frames' = [frames EXCEPT ![t].pc = "100"]
    /\ UNCHANGED <<chain, last, submitted, via>>

\* line 145 calls add_block; line 100: previous_hash = self.last_block.hash
Line100(t) ==
    /\ frames[t].pc = "100"
    /\ frames' = [frames EXCEPT ![t].pc = "101",
                                ![t].previous_hash = <<last_block(chain).hash>>]
    /\ UNCHANGED <<chain, unconfirmed_transactions, last, submitted, via>>

\* lines 101-102: if previous_hash != block.previous_hash: return False, and
\* line 148 returns False
Line101(t) ==
    /\ frames[t].pc = "101"
    /\ frames' = [frames EXCEPT ![t] =
                    IF frames[t].previous_hash[1] # frames[t].new_block[1].previous_hash
                    THEN Returned(PyBool(FALSE))
                    ELSE [@ EXCEPT !.pc = "103"]]
    /\ UNCHANGED <<chain, unconfirmed_transactions, last, submitted, via>>

\* lines 103-104: if not self.is_valid_proof(block, proof): return False, and
\* line 148 returns False
Line103(t) ==
    /\ frames[t].pc = "103"
    /\ frames' = [frames EXCEPT ![t] =
                    IF ~is_valid_proof(frames[t].new_block[1], frames[t].computed_hash)
                    THEN Returned(PyBool(FALSE))
                    ELSE [@ EXCEPT !.pc = "105"]]
    /\ UNCHANGED <<chain, unconfirmed_transactions, last, submitted, via>>

\* line 105: block.hash = proof
Line105(t) ==
    /\ frames[t].pc = "105"
    /\ frames' = [frames EXCEPT ![t].pc = "106",
                                ![t].new_block[1].hash = PyStr(frames[t].computed_hash)]
    /\ UNCHANGED <<chain, unconfirmed_transactions, last, submitted, via>>

\* line 106: self.chain.append(block); line 107 returns True and line 146
\* returns new_block.index
Line106(t) ==
    /\ frames[t].pc = "106"
    /\ chain' = Append(chain, frames[t].new_block[1])
    /\ via' = Append(via, "mine")
    /\ frames' = [frames EXCEPT ![t] = Returned(PyInt(frames[t].new_block[1].index))]
    /\ UNCHANGED <<unconfirmed_transactions, last, submitted>>

\* a statement of the call the thread is in
Running(t) ==
    \/ Line138(t) \/ Line139(t)
    \/ Line86(t) \/ Line87(t) \/ Line88(t) \/ Line89(t) \/ Line90(t)
    \/ Line144(t)
    \/ Line100(t) \/ Line101(t) \/ Line103(t) \/ Line105(t) \/ Line106(t)

Step(t) == Line127(t) \/ Line136(t) \/ Running(t)

\* one caller: the calls run one after the other
NextSteps == Step(1)

\* a call that has started goes on: the interpreter runs the thread's next
\* statement
SpecSteps == Init /\ [][NextSteps]_vars /\ WF_vars(Running(1))

\* several callers, no lock: any thread runs its next statement; the callers
\* submit each Transaction once
NextThreads ==
    /\ \E t \in Threads : Step(t)
    /\ \A tx \in Transactions : submitted'[tx] <= 1

SpecThreads == Init /\ [][NextThreads]_vars /\ \A t \in Threads : WF_vars(Running(t))

(***************************************************************************)
(* Properties.                                                             *)
(***************************************************************************)
\* every block after the genesis block was appended by mine()
NoDirect == \A i \in 1..Len(via) : via[i] # "add_block"

\* the Transaction is in a block of the chain (blocks hold the dicts that
\* json.loads(str(tx)) gives)
InChain(tx) ==
    \E k \in 1..Len(chain) : \E j \in 1..Len(chain[k].transactions) :
        chain[k].transactions[j] = json_loads(Transaction_str(tx))

Disjoint ==
    \A i \in 1..Len(unconfirmed_transactions) : ~InChain(unconfirmed_transactions[i])

IndexMonotone ==
    /\ chain[1].index = 0
    /\ \A i \in 1..Len(chain) : chain[i].index >= 0
    /\ \A i \in 2..Len(chain) : chain[i].index > chain[i - 1].index

\* C1: in every reachable state, whatever blocks and proofs add_block was
\* given, every block after the first names the stored hash of the block
\* before it as its previous_hash.
C1_Linkage ==
    \A i \in 2..Len(chain) : chain[i].previous_hash = chain[i - 1].hash

C1_Witness ==
    /\ Len(chain) >= 3
    /\ \E i \in 1..Len(via) : via[i] = "add_block"
    /\ \E i \in 1..Len(via) : via[i] = "mine"

\* C2: in every reachable state the stored hash of every block of the chain
\* is what compute_hash() returns for the block as it stands.
C2_StoredHashIsComputeHash ==
    \A i \in 1..Len(chain) : chain[i].hash = PyStr(compute_hash(chain[i]))

\* C3, as stated: with add_new_transaction and mine calls only, any
\* transaction submitted any number of times, no transaction is both pending
\* and in a block of the chain.
C3_DisjointAnySubmission == NoDirect => Disjoint

\* C3, amended: with add_new_transaction and mine calls only and no
\* transaction submitted more than once, no transaction is both pending and
\* in a block of the chain.
C3_DisjointSubmittedOnce ==
    (NoDirect /\ \A t \in Transactions : submitted[t] <= 1) => Disjoint

C3_Witness ==
    /\ NoDirect
    /\ \A t \in Transactions : submitted[t] = 1
    /\ Len(chain) = 2
    /\ Len(unconfirmed_transactions) = 1

\* C4: a mine() call on a non-empty pool that returns an index leaves the
\* pool empty and the chain the old chain plus one block, and the index
\* returned is that block's, one more than the old tip's.
C4_SuccessfulMine ==
    [][(last'.op = "mine" /\ unconfirmed_transactions # <<>> /\ last'.ret.t = "int") =>
          /\ unconfirmed_transactions' = <<>>
          /\ Len(last'.blk) = 1
          /\ chain' = Append(chain, last'.blk[1])
          /\ last'.ret = PyInt(last'.blk[1].index)
          /\ last'.blk[1].index = chain[Len(chain)].index + 1]_vars

C4_Witness ==
    /\ last.op = "mine"
    /\ last.ret.t = "int"
    /\ Len(chain[Len(chain)].transactions) = 2

\* C5: a mine() call on an empty pool returns False, builds no block and
\* leaves the chain and the pool as they were.
C5_MineEmptyPool ==
    [][(last'.op = "mine" /\ unconfirmed_transactions = <<>>) =>
          /\ last'.ret = PyBool(FALSE)
          /\ last'.blk = <<>>
          /\ chain' = chain
          /\ unconfirmed_transactions' = unconfirmed_transactions]_vars

C5_Witness ==
    /\ last.op = "mine"
    /\ last.ret = PyBool(FALSE)
    /\ last.blk = <<>>
    /\ Len(chain) >= 2

\* C6: add_block(block, proof) returns False, with the chain, the pool and
\* the block untouched, exactly when block.previous_hash is not the tip's
\* stored hash or is_valid_proof(block, proof) is false; otherwise it returns
\* True, sets block.hash to proof and appends the block as the new tip.
C6_AddBlockRule ==
    [][last'.op = "add_block" =>
          LET block == last'.arg[1]
              proof == last'.proof
              rejected == \/ block.previous_hash # chain[Len(chain)].hash
                          \/ ~is_valid_proof(block, proof)
          IN  /\ rejected <=> last'.ret = PyBool(FALSE)
              /\ ~rejected <=> last'.ret = PyBool(TRUE)
              /\ rejected =>
                    /\ chain' = chain
                    /\ unconfirmed_transactions' = unconfirmed_transactions
                    /\ last'.blk = <<block>>
              /\ ~rejected =>
                    /\ last'.blk = <<[block EXCEPT !.hash = PyStr(proof)]>>
                    /\ chain' = Append(chain, last'.blk[1])
                    /\ unconfirmed_transactions' = unconfirmed_transactions]_vars

C6_Witness ==
    /\ last.op = "add_block"
    /\ last.ret = PyBool(TRUE)
    /\ last.arg[1].hash # Absent

\* C7: when proof_of_work(B) returns, the hash it returns starts with
\* DIFFICULTY zeros, is the hash of B with the nonce B is left with, and
\* is_valid_proof(B, hash) is true.
C7_DifficultySatisfied ==
    (last.op = "proof_of_work" /\ last.arg[1].hash = Absent) =>
        /\ startswith_zeros(last.ret.s, DIFFICULTY)
        /\ last.ret.s = compute_hash(last.blk[1])
        /\ is_valid_proof(last.blk[1], last.ret.s)

C7_Witness ==
    /\ last.op = "proof_of_work"
    /\ last.arg[1].hash = Absent
    /\ last.arg[1].nonce > 0
    /\ last.blk[1].nonce \in 1..(last.arg[1].nonce - 1)

\* C8: after is_valid_proof(B, h) was true, is_valid_proof(B', h) is false for
\* every B' that differs from B in one of index, a transaction's content,
\* timestamp, previous_hash and nonce.
C8_TamperDetected ==
    last.op = "is_valid_proof after tampering" => last.ret = PyBool(FALSE)

C8_Witness ==
    /\ last.op = "is_valid_proof after tampering"
    /\ last.arg[1].transactions # last.blk[1].transactions

\* C9: every step leaves the chain as it was or appends one block to it: the
\* blocks that were in the chain keep all their fields.
C9_AppendOnly ==
    [][/\ Len(chain') \in {Len(chain), Len(chain) + 1}
       /\ SubSeq(chain', 1, Len(chain)) = chain]_vars

C9_Witness ==
    /\ Len(chain) >= 3
    /\ last.op = "add_block"
    /\ last.ret = PyBool(TRUE)

\* C10, as stated: in every reachable state, add_block given blocks of any
\* index, the indices start at 0, are not negative and increase strictly
\* along the chain.
C10_IndexMonotoneFullApi == IndexMonotone

\* C10, amended: as long as every block after the genesis block was appended
\* by mine(), the indices start at 0, are not negative and increase strictly
\* along the chain.
C10_IndexMonotoneMined == NoDirect => IndexMonotone

C10_Witness ==
    /\ NoDirect
    /\ Len(chain) >= 3
    /\ last.op = "mine"

\* C11: as long as the chain was built by add_new_transaction and mine() only,
\* every block's index is its predecessor's index plus one, the block at
\* position i (counted from 0) has index i, and every index mine() returns is
\* at least 1.
C11_IndexIsPosition ==
    NoDirect =>
        /\ \A i \in 2..Len(chain) : chain[i].index = chain[i - 1].index + 1
        /\ \A i \in 1..Len(chain) : chain[i].index = i - 1
        /\ (last.op = "mine" /\ last.ret.t = "int") => last.ret.s[1] >= 1

C11_Witness ==
    /\ NoDirect
    /\ Len(chain) = 3
    /\ last.op = "mine"
    /\ last.ret = PyInt(2)
    /\ chain[3].index = 2

\* the dict holds the five fields of the Transaction and nothing else
SameContent(d, tx) ==
    /\ DOMAIN d = {K.amount, K.data, K.receiver, K.sender, K.timestamp}
    /\ d[K.sender] = tx.sender
    /\ d[K.receiver] = tx.receiver
    /\ d[K.data] = tx.data
    /\ d[K.amount] = tx.amount
    /\ d[K.timestamp] = tx.timestamp

\* C12: a mine() call on a non-empty pool that returns appends exactly one
\* block to the chain; the block's transactions are the pool's transactions,
\* all of them and in submission order, and the pool is empty afterwards.
C12_WholePoolInOneBlock ==
    [][(last'.op = "mine" /\ unconfirmed_transactions # <<>>) =>
          /\ Len(chain') = Len(chain) + 1
          /\ SubSeq(chain', 1, Len(chain)) = chain
          /\ Len(chain'[Len(chain')].transactions) = Len(unconfirmed_transactions)
          /\ \A i \in 1..Len(unconfirmed_transactions) :
                 SameContent(chain'[Len(chain')].transactions[i],
                             unconfirmed_transactions[i])
          /\ unconfirmed_transactions' = <<>>]_vars

C12_Witness ==
    /\ last.op = "mine"
    /\ unconfirmed_transactions = <<>>
    /\ Len(chain[Len(chain)].transactions) = 2
    /\ chain[Len(chain)].transactions[1] # chain[Len(chain)].transactions[2]
    /\ via[Len(chain)] = "mine"

\* C13: every add_new_transaction(tx) call returns (None) and leaves the pool as
\* the old pool with tx appended at the end, whatever tx is (pending already or
\* committed already), and leaves the chain as it was.
C13_SubmitAppends ==
    [][last'.op = "add_new_transaction" =>
          /\ last'.ret = PyNone
          /\ \E tx \in Transactions :
                 /\ submitted' = [submitted EXCEPT ![tx] = @ + 1]
                 /\ unconfirmed_transactions' = unconfirmed_transactions \o <<tx>>
          /\ chain' = chain]_vars

\* the transaction just accepted was pending already and is in a block already
C13_Witness ==
    /\ last.op = "add_new_transaction"
    /\ Len(unconfirmed_transactions) = 2
    /\ unconfirmed_transactions[1] = unconfirmed_transactions[2]
    /\ unconfirmed_transactions[1] # T1
    /\ InChain(unconfirmed_transactions[2])

\* C14: a new Blockchain has an empty pool and a chain of length 1; in every
\* reachable state the chain is non-empty and its first block is the genesis
\* block: index 0, previous_hash the int 0, the single marker transaction,
\* nonce 0 and the hash computed at construction, whether or not that hash has
\* DIFFICULTY leading zeros; no step changes or replaces that block.
C14_Genesis ==
    /\ [](/\ last.op = "Blockchain" =>
                (unconfirmed_transactions = <<>> /\ Len(chain) = 1)
          /\ Len(chain) >= 1
          /\ chain[1].index = 0
          /\ chain[1].previous_hash = PyInt(0)
          /\ Len(chain[1].transactions) = 1
          /\ chain[1].transactions[1] = (K.transaction :> PyStr(<<5>>))
          /\ chain[1].nonce = 0
          /\ chain[1].hash = PyStr(sha256_hexdigest(Block_dumps([chain[1] EXCEPT !.hash = Absent]))))
    /\ [][chain'[1] = chain[1]]_vars

\* the chain has grown, and the genesis block's hash has no leading zeros
C14_Witness ==
    /\ Len(chain) = 3
    /\ via[1] = "genesis"
    /\ chain[1].index = 0
    /\ ~startswith_zeros(chain[1].hash.s, 1)

\* C15: in every state reachable by add_new_transaction, mine() and direct
\* add_block calls, a mine() call on a non-empty pool that returns does not
\* take the failure branch: add_block accepts the candidate, the chain grows by
\* that block, and the value returned is the new block's index, an int and not
\* False.
C15_MineNeverFails ==
    [][(last'.op = "mine" /\ unconfirmed_transactions # <<>>) =>
          /\ last'.ret.t = "int"
          /\ last'.ret # PyBool(FALSE)
          /\ last'.ret.s[1] = chain[Len(chain)].index + 1
          /\ chain' = Append(chain, last'.blk[1])
          /\ last'.blk[1].index = last'.ret.s[1]]_vars

\* mine() after a direct add_block of a block of index -1: the index returned
\* is the int 0
C15_Witness ==
    /\ last.op = "mine"
    /\ last.ret = PyInt(0)
    /\ Len(chain) = 3
    /\ via[2] = "add_block"
    /\ via[3] = "mine"

\* how many copies of the Transaction are pending
PendingCount(tx) ==
    Cardinality({i \in 1..Len(unconfirmed_transactions) : unconfirmed_transactions[i] = tx})

\* how many copies of the Transaction are in the blocks that mine() appended
MinedCount(tx) ==
    Cardinality({kj \in (1..Len(chain)) \X (1..MaxSubmits) :
                    /\ via[kj[1]] = "mine"
                    /\ kj[2] <= Len(chain[kj[1]].transactions)
                    /\ SameContent(chain[kj[1]].transactions[kj[2]], tx)})

\* C16: in every state reachable by add_new_transaction, mine() and direct
\* add_block calls, every submission of a transaction is accounted for: each
\* submitted copy is either pending or in a block that mine() appended, so no
\* mine() call has cleared a transaction out of the pool without committing it.
C16_Conservation ==
    \A tx \in Transactions :
        /\ PendingCount(tx) + MinedCount(tx) = submitted[tx]
        /\ submitted[tx] > 0 => (PendingCount(tx) > 0 \/ InChain(tx))

\* a transaction submitted twice, one copy committed by mine() and one pending,
\* in a chain that also holds a directly added block
C16_Witness ==
    /\ submitted[T2] = 2
    /\ PendingCount(T2) = 1
    /\ MinedCount(T2) = 1
    /\ ~NoDirect
    /\ last.op = "add_new_transaction"

\* C17, as stated: in every reachable state, direct add_block calls included,
\* the stored hash of every block after the genesis block starts with
\* DIFFICULTY zeros and is the fingerprint of the block's index, transactions,
\* timestamp, previous_hash and nonce.
C17_StoredHashIsFiveFieldProof ==
    \A i \in 2..Len(chain) :
        /\ startswith_zeros(chain[i].hash.s, DIFFICULTY)
        /\ chain[i].hash.s = sha256_hexdigest(Block_dumps([chain[i] EXCEPT !.hash = Absent]))

\* the fingerprint of the block with nonce n starts with DIFFICULTY zeros
Qualifies(block, n) ==
    startswith_zeros(sha256_hexdigest(Block_dumps([block EXCEPT !.nonce = n])), DIFFICULTY)

InSearch(t) == frames[t].pc \in {"86", "87", "88", "89", "90"}

\* some nonce from n to MaxNonce gives the block a qualifying fingerprint
QualifiesFrom(block, n) == \E m \in n..MaxNonce : Qualifies(block, m)

\* C19: in a mine() call on a non-empty pool, every iteration of the search
\* advances the nonce by exactly 1 and changes nothing else; the search ends
\* only at a nonce whose fingerprint meets the difficulty; the call returns
\* eventually if some nonce (up to MaxNonce) qualifies; and if none does, the
\* call stays in the search, with the pool not cleared and the chain unchanged.
C19_MineTermination ==
    /\ [][(InSearch(1) /\ InSearch(1)') =>
             /\ unconfirmed_transactions' = unconfirmed_transactions
             /\ unconfirmed_transactions # <<>>
             /\ chain' = chain
             /\ frames'[1].new_block[1] =
                    [frames[1].new_block[1] EXCEPT !.nonce = frames'[1].new_block[1].nonce]
             /\ frames'[1].new_block[1].nonce - frames[1].new_block[1].nonce =
                    IF frames[1].pc = "89" THEN 1 ELSE 0]_vars
    /\ [][(InSearch(1) /\ ~InSearch(1)') =>
             /\ Qualifies(frames[1].new_block[1], frames[1].new_block[1].nonce)
             /\ frames'[1].new_block = frames[1].new_block]_vars
    /\ [][(InSearch(1) /\ ~QualifiesFrom(frames[1].new_block[1], 0)) => InSearch(1)']_vars
    /\ (InSearch(1) /\ QualifiesFrom(frames[1].new_block[1], 0)) ~> (frames[1].pc = "returned")

\* after a mine() call that returned, a second one has tried every nonce up to
\* MaxNonce, none qualifies, and the pool is still there
C19_Witness ==
    /\ Len(chain) = 2
    /\ via[2] = "mine"
    /\ chain[2].nonce >= 2
    /\ frames[1].pc = "89"
    /\ frames[1].new_block[1].nonce = MaxNonce
    /\ ~QualifiesFrom(frames[1].new_block[1], 0)
    /\ unconfirmed_transactions # <<>>

\* C20, as stated: with the calls of several threads interleaved statement by
\* statement and each transaction submitted once, the run comes to a state in
\* which a transaction is pending and in a block of the chain at once.
C20_InterleavingBreaksDisjointness == <>(~Disjoint)

\* C20, amended: in every interleaving with each transaction submitted once,
\* no transaction is pending and in a block of the chain at once (mine()
\* clears the pool before it appends its block).
C20_DisjointInEveryInterleaving ==
    (\A tx \in Transactions : submitted[tx] <= 1) => Disjoint

\* What an interleaving does break is conservation: all calls have returned,
\* a block was mined, and a transaction that was submitted is neither pending
\* nor in any block (it was appended to the pool between a miner's snapshot
\* and that miner's clear).
C20_Witness ==
    /\ \A t \in Threads : frames[t].pc = "returned"
    /\ Len(chain) = 2
    /\ via[2] = "mine"
    /\ \E tx \in Transactions :
        /\ submitted[tx] = 1
        /\ PendingCount(tx) = 0
        /\ ~InChain(tx)

====
